---- MODULE Spec2Model ----
(***************************************************************************)
(* State-machine model of the Multilingual Mandi services:                 *)
(*   - TranslationService (translation_service.py): translate with the     *)
(*     per-session cache kept in st.session_state, batch_translate,        *)
(*     clear_cache;                                                        *)
(*   - the Streamlit script run of app.py (main, chat submission);         *)
(*   - MarketRateService (market_service.py): get_current_rates,           *)
(*     get_historical_trends, update_mock_data.                            *)
(*                                                                         *)
(* Strings are tuples of one-character tokens, so that lower(), strip(),   *)
(* the "text_language" cache key and detect_language are computed as the   *)
(* code computes them.  A non-ASCII character is written as a token name   *)
(* ("DEV_MA" is a Devanagari letter, "RUPEE" the rupee sign).              *)
(* Prices are fixed-point integers counting 1/Scale rupees.                *)
(***************************************************************************)
EXTENDS Integers, Sequences, FiniteSets, TLC

VARIABLES
    service,        \* the st.cache_resource singleton: [built, gemini_client]
    session_state,  \* session -> that session's st.session_state (a mapping)
    clock,          \* successive values of datetime.now()
    last,           \* the most recent operation, its result and its gateway calls
    objs,           \* crop key -> the CropRate object (shared, mutable) behind it
    mock_data,      \* MarketRateService.mock_data: crop key -> object reference
    held,           \* what a caller holds from its last market read
    moves           \* number of non-zero price variations drawn so far

vars == <<service, session_state, clock, last, objs, mock_data, held, moves>>

marketVars == <<objs, mock_data, held, moves>>

----------------------------------------------------------------------------
(* Bounds of the model *)

NumSessions == 2        \* concurrent browser sessions
MaxBatch == 1           \* longest list handed to batch_translate
MaxChats == 2           \* chat submissions over a run
NumReplies == 1         \* mock replies of the chat handler that are drawn
NumCrops == 1           \* records of the catalog that are modelled
MaxTicks == 25          \* calls of update_mock_data
MaxMoves == 1           \* non-zero variations drawn over a run

Sessions == 1..NumSessions

----------------------------------------------------------------------------
(* Characters and str methods *)

UpperCase == <<"A","B","C","D","E","F","G","H","I","J","K","L","M",
               "N","O","P","Q","R","S","T","U","V","W","X","Y","Z">>
LowerCase == <<"a","b","c","d","e","f","g","h","i","j","k","l","m",
               "n","o","p","q","r","s","t","u","v","w","x","y","z">>

AsciiLetters == {UpperCase[i] : i \in 1..26} \cup {LowerCase[i] : i \in 1..26}
DevanagariLetters == {"DEV_MA", "DEV_KA"}
NonAscii == DevanagariLetters \cup {"RUPEE"}
Whitespace == {" ", "\t", "\n"}

\* char.isalpha()
IsAlpha(c) == c \in AsciiLetters \cup DevanagariLetters

\* ord(char) < 128
IsAscii(c) == c \notin NonAscii

\* one character of str.lower()
LowerChar(c) ==
    IF \E i \in 1..26 : UpperCase[i] = c
    THEN LowerCase[CHOOSE i \in 1..26 : UpperCase[i] = c]
    ELSE c

\* str.lower()
Lower(str) == [i \in 1..Len(str) |-> LowerChar(str[i])]

RECURSIVE LStrip(_)
LStrip(str) ==
    IF str # <<>> /\ Head(str) \in Whitespace THEN LStrip(Tail(str)) ELSE str

RECURSIVE RStrip(_)
RStrip(str) ==
    IF str # <<>> /\ str[Len(str)] \in Whitespace
    THEN RStrip(SubSeq(str, 1, Len(str) - 1))
    ELSE str

\* the text taken as it is
StripNothing(str) == str

\* str.strip()
Strip(str) == LStrip(RStrip(str))

RECURSIVE RemoveSpaces(_)
\* str.replace(" ", "")
RemoveSpaces(str) ==
    IF str = <<>> THEN <<>>
    ELSE IF Head(str) = " " THEN RemoveSpaces(Tail(str))
    ELSE <<Head(str)>> \o RemoveSpaces(Tail(str))

----------------------------------------------------------------------------
(* TranslationService *)

marathi == <<"m","a","r","a","t","h","i">>
hindi == <<"h","i","n","d","i">>
english == <<"e","n","g","l","i","s","h">>

supported_languages == {marathi, hindi, english}

\* target_language arguments tried by the callers of translate
LangInputs ==
    { hindi, english,
      <<"H","i","n","d","i">>,
      <<"t","a","m","i","l">> }

\* text arguments tried by the callers of translate
Texts ==
    { <<>>, <<" ">>, <<"o","k">>, <<"DEV_MA","DEV_KA">> }

\* detect_language: english when some alphabetic character is ASCII
detect_language(text) ==
    IF text # <<>> /\ \E i \in 1..Len(text) : IsAlpha(text[i]) /\ IsAscii(text[i])
    THEN english
    ELSE marathi

\* the text alone as the key
CacheKeyTextOnly(text, target_language) == text

\* f"{text}_{target_language}"
CacheKey(text, target_language) == text \o <<"_">> \o target_language

\* 'key' in st.session_state
Has(st, key) == key \in DOMAIN st

\* st.session_state.key = value
Put(st, key, value) == [k \in DOMAIN st \cup {key} |-> IF k = key THEN value ELSE st[k]]

EmptyDict == [k \in {} |-> <<>>]

\* st.session_state as seen by the script run of session s
StateOf(s) == session_state[s]

\* a store every script run would share
WriteStateShared(s, st) == [t \in Sessions |-> st]

\* the session states once the script run of session s leaves st in its
\* st.session_state: the other sessions' states are not touched
WriteState(s, st) == [session_state EXCEPT ![s] = st]

\* marks telling apart the answers the gateway may give to one request
VariantMarks == {"v1", "v2"}

\* what the gateway may do on one call of translate_text(text, source, target):
\* fail, or answer with one of its variants of the translation
GatewayOutcomes(text, source, target) ==
    {[ok |-> FALSE, value |-> <<>>]} \cup
    {[ok |-> TRUE, value |-> <<v>> \o target \o <<":">> \o text] : v \in VariantMarks}

\* a finished call: how it ended, what it returned, the session state it
\* leaves and the gateway calls it made
Returned(value, st, calls) ==
    [outcome |-> "return", value |-> value, st |-> st, calls |-> calls]

Raised(st, calls) ==
    [outcome |-> "raise", value |-> <<>>, st |-> st, calls |-> calls]

\* a lookup that never finds the key
CacheHitNever(cache, cache_key) == FALSE

\* cache_key in st.session_state.translation_cache
CacheHit(cache, cache_key) == cache_key \in DOMAIN cache

\* the fallback text stored as if it were a translation
AfterGatewayCachesFailure(st, cache_key, text, gw, call) ==
    LET value == IF gw.ok THEN gw.value ELSE text IN
    Returned(value,
             Put(st, "translation_cache", Put(st["translation_cache"], cache_key, value)),
             <<call>>)

\* the translation returned without being stored
AfterGatewayNoStore(st, cache_key, text, gw, call) ==
    Returned(IF gw.ok THEN gw.value ELSE text, st, <<call>>)

\* the translation stored in a fresh dict that replaces the cache
AfterGatewayFreshCache(st, cache_key, text, gw, call) ==
    IF gw.ok
    THEN Returned(gw.value,
                  Put(st, "translation_cache", Put(EmptyDict, cache_key, gw.value)),
                  <<call>>)
    ELSE Returned(text, st, <<call>>)

\* the try block once the gateway has been called: store and return the
\* translation, or fall back to the text when the call raised
AfterGateway(st, cache_key, text, gw, call) ==
    IF gw.ok
    THEN Returned(gw.value,
                  Put(st, "translation_cache",
                      Put(st["translation_cache"], cache_key, gw.value)),
                  <<call>>)
    ELSE Returned(text, st, <<call>>)

\* TranslationService.translate, run against the calling session's
\* session_state st, with client = self.gemini_client: the set of ways the
\* call can end, one for each thing the gateway may do when it is reached
translate(st, client, text, target_language_arg) ==
    IF text = <<>> \/ Strip(text) = <<>> THEN {Returned(text, st, <<>>)}
    ELSE
    LET target_language == Lower(target_language_arg) IN
    IF target_language \notin supported_languages THEN {Returned(text, st, <<>>)}
    ELSE
    LET cache_key == CacheKey(text, target_language) IN
    IF ~Has(st, "translation_cache") THEN {Raised(st, <<>>)}   \* AttributeError
    ELSE IF CacheHit(st["translation_cache"], cache_key)
    THEN {Returned(st["translation_cache"][cache_key], st, <<>>)}
    ELSE IF ~client THEN {Returned(text, st, <<>>)}
    ELSE
    LET source_lang == detect_language(text) IN
    IF source_lang = target_language THEN {Returned(text, st, <<>>)}
    ELSE {AfterGateway(st, cache_key, text, gw,
                       [text |-> text, source |-> source_lang,
                        target |-> target_language, ok |-> gw.ok]) :
            gw \in GatewayOutcomes(text, source_lang, target_language)}

RECURSIVE batch_translate(_, _, _, _)
\* [self.translate(text, target_language) for text in texts]: the results in
\* order; an exception in one element ends the comprehension
batch_translate(st, client, texts, target_language) ==
    IF texts = <<>> THEN {Returned(<<>>, st, <<>>)}
    ELSE UNION {
        IF first.outcome = "raise" THEN {first}
        ELSE { IF rest.outcome = "raise"
               THEN Raised(rest.st, first.calls \o rest.calls)
               ELSE Returned(<<first.value>> \o rest.value, rest.st,
                             first.calls \o rest.calls) :
               rest \in batch_translate(first.st, client, Tail(texts), target_language) } :
        first \in translate(st, client, Head(texts), target_language) }

\* TranslationService.clear_cache
clear_cache(st) ==
    IF Has(st, "translation_cache") THEN Put(st, "translation_cache", EmptyDict) ELSE st

----------------------------------------------------------------------------
(* app.py: one script run per user action *)

Roles == {"buyer", "seller"}

\* the keys of the language selectbox of render_sidebar
SidebarLanguages == {marathi, hindi, english}

\* texts a user submits through st.chat_input (never the empty string)
ChatInputs == { <<"o","k">> }

\* the four mock replies of render_negotiation_page, abbreviated: English
\* sentences, two of them with a rupee amount
ai_responses ==
    << <<"I"," ","u","RUPEE">>,
       <<"B","a","RUPEE">>,
       <<"L","e","t">>,
       <<"C","o","n">> >>

\* the default role set to the name of the chat avatar
initialize_session_state_user(st) ==
    LET st1 == IF Has(st, "language") THEN st ELSE Put(st, "language", marathi)
        st2 == IF Has(st1, "user_role") THEN st1 ELSE Put(st1, "user_role", "user")
    IN  IF Has(st2, "negotiation_history") THEN st2
        ELSE Put(st2, "negotiation_history", <<>>)

\* initialize_session_state
initialize_session_state(st) ==
    LET st1 == IF Has(st, "language") THEN st ELSE Put(st, "language", marathi)
        st2 == IF Has(st1, "user_role") THEN st1 ELSE Put(st1, "user_role", "buyer")
    IN  IF Has(st2, "negotiation_history") THEN st2
        ELSE Put(st2, "negotiation_history", <<>>)

\* how building the services can end on the run that finds none cached:
\* ConfigManager() raises, or the service is built without or with an API key
BuildOutcomes == {"raise", "no_key", "key"}

\* TranslationService.__init__ run in the session whose state is st
TranslationService_init(st, how) ==
    [st |-> IF Has(st, "translation_cache") THEN st
            ELSE Put(st, "translation_cache", EmptyDict),
     service |-> [built |-> TRUE, gemini_client |-> (how = "key")]]

\* the start of main(): initialize_session_state, then initialize_services
\* under st.cache_resource (built once per process, a failure is not cached)
Boot(st, svc, how) ==
    LET st1 == initialize_session_state(st) IN
    IF svc.built THEN [st |-> st1, service |-> svc, available |-> TRUE]
    ELSE IF how = "raise" THEN [st |-> st1, service |-> svc, available |-> FALSE]
    ELSE LET b == TranslationService_init(st1, how)
         IN  [st |-> b.st, service |-> b.service, available |-> TRUE]

NoService == [built |-> FALSE, gemini_client |-> FALSE]

Op(op, sess, text, lang, outcome, value, calls, again) ==
    [op |-> op, sess |-> sess, text |-> text, lang |-> lang, outcome |-> outcome,
     value |-> value, calls |-> calls, again |-> again]

\* a script run with no pending input: page load or rerun
Main(s) ==
    \E how \in BuildOutcomes :
        LET b == Boot(StateOf(s), service, how) IN
        /\ session_state' = WriteState(s, b.st)
        /\ service' = b.service
        /\ last' = Op("main", s, <<>>, <<>>, "return", <<>>, <<>>, FALSE)
        /\ UNCHANGED <<clock, marketVars>>

\* render_sidebar: the language selectbox changed
ChangeLanguage(s, lang) ==
    /\ Has(StateOf(s), "language")
    /\ lang # StateOf(s)["language"]
    /\ \E how \in BuildOutcomes :
        LET b == Boot(StateOf(s), service, how) IN
        /\ session_state' = WriteState(s, Put(b.st, "language", lang))
        /\ service' = b.service
    /\ last' = Op("language", s, <<>>, lang, "return", <<>>, <<>>, FALSE)
    /\ UNCHANGED <<clock, marketVars>>

\* render_sidebar: the role selectbox changed
ChangeRole(s, role) ==
    /\ Has(StateOf(s), "user_role")
    /\ role # StateOf(s)["user_role"]
    /\ \E how \in BuildOutcomes :
        LET b == Boot(StateOf(s), service, how) IN
        /\ session_state' = WriteState(s, Put(b.st, "user_role", role))
        /\ service' = b.service
    /\ last' = Op("role", s, <<>>, <<>>, "return", <<>>, <<>>, FALSE)
    /\ UNCHANGED <<clock, marketVars>>

Message(role, content, timestamp) ==
    [role |-> role, content |-> content, timestamp |-> timestamp]

\* the message inserted in front of the others
AppendMessageFront(st, message) ==
    Put(st, "negotiation_history", <<message>> \o st["negotiation_history"])

\* st.session_state.negotiation_history.append(message)
AppendMessage(st, message) ==
    Put(st, "negotiation_history", Append(st["negotiation_history"], message))

\* the call with no try/except around it: an exception leaves the handler
TranslateReplyNoExcept(st, svc, available, ai_response) ==
    IF st["language"] = english
    THEN {[outcome |-> "skipped", value |-> ai_response, st |-> st, calls |-> <<>>]}
    ELSE IF ~available
    THEN {[outcome |-> "abort", value |-> <<>>, st |-> st, calls |-> <<>>]}
    ELSE { IF r.outcome = "raise" THEN [r EXCEPT !.outcome = "abort"] ELSE r :
           r \in translate(st, svc.gemini_client, ai_response, st["language"]) }

\* the try/except around translation_service.translate in the chat handler:
\* a missing service or any exception keeps the untranslated reply
TranslateReply(st, svc, available, ai_response) ==
    IF st["language"] = english
    THEN {[outcome |-> "skipped", value |-> ai_response, st |-> st, calls |-> <<>>]}
    ELSE IF ~available THEN {[Raised(st, <<>>) EXCEPT !.value = ai_response]}
    ELSE { IF r.outcome = "raise" THEN [r EXCEPT !.value = ai_response] ELSE r :
           r \in translate(st, svc.gemini_client, ai_response, st["language"]) }

\* number of chat submissions so far, over all sessions
Chats ==
    LET n(s) == IF Has(StateOf(s), "negotiation_history")
                THEN Len(StateOf(s)["negotiation_history"]) ELSE 0
        sum[k \in 0..NumSessions] == IF k = 0 THEN 0 ELSE sum[k - 1] + n(k)
    IN  sum[NumSessions] \div 2

\* render_negotiation_page with a chat input: append the user's message, pick
\* a reply, translate it unless the language is english, append it; an
\* exception that leaves the handler ends the script run before the reply
SubmitChat(s, user_input, choice) ==
    /\ Has(StateOf(s), "negotiation_history")
    /\ Chats < MaxChats
    /\ \E how \in BuildOutcomes :
        LET b == Boot(StateOf(s), service, how)
            st1 == AppendMessage(b.st, Message(b.st["user_role"], user_input, clock))
            ai_response == ai_responses[choice]
        IN  \E t \in TranslateReply(st1, b.service, b.available, ai_response) :
                /\ session_state' =
                       WriteState(s, IF t.outcome = "abort" THEN t.st
                                     ELSE AppendMessage(t.st,
                                            Message("ai_assistant", t.value, clock + 1)))
                /\ service' = b.service
                /\ last' = Op("submit", s, ai_response, st1["language"], t.outcome,
                              t.value, t.calls, FALSE)
    /\ clock' = clock + 2
    /\ UNCHANGED marketVars

----------------------------------------------------------------------------
(* Calls of the TranslationService methods made in a session's script run *)

InService(s) == service.built /\ Has(StateOf(s), "language")

Translate(s, text, lang) ==
    /\ InService(s)
    /\ \E r \in translate(StateOf(s), service.gemini_client, text, lang) :
        /\ session_state' = WriteState(s, r.st)
        /\ last' = Op("translate", s, text, lang, r.outcome, r.value, r.calls,
                      /\ last.op = "translate"
                      /\ last.sess = s
                      /\ last.text = text
                      /\ last.lang = lang)
    /\ UNCHANGED <<service, clock, marketVars>>

\* texts handed to batch_translate
BatchTexts == { <<"o","k">>, <<"DEV_MA","DEV_KA">> }

Batches == UNION {[1..n -> BatchTexts] : n \in 0..MaxBatch}

BatchTranslate(s, texts, lang) ==
    /\ InService(s)
    /\ \E r \in batch_translate(StateOf(s), service.gemini_client, texts, lang) :
        /\ session_state' = WriteState(s, r.st)
        /\ last' = Op("batch_translate", s, texts, lang, r.outcome, r.value, r.calls, FALSE)
    /\ UNCHANGED <<service, clock, marketVars>>

ClearCache(s) ==
    /\ InService(s)
    /\ session_state' = WriteState(s, clear_cache(StateOf(s)))
    /\ last' = Op("clear_cache", s, <<>>, <<>>, "return", <<>>, <<>>, FALSE)
    /\ UNCHANGED <<service, clock, marketVars>>

----------------------------------------------------------------------------
(* MarketRateService *)

Scale == 1000           \* a price p counts p/Scale rupees
Cent == 10              \* Scale / 100: the grid of round(x, 2)
HistoryCap == 30
SeedLen == 7

\* _initialize_mock_data: key, current_price and trend of each record, in
\* insertion order
Catalog ==
    << [key |-> <<"w","h","e","a","t">>,                 price |-> 2500, trend |-> "up"],
       [key |-> <<"r","i","c","e">>,                     price |-> 3200, trend |-> "stable"],
       [key |-> <<"o","n","i","o","n">>,                 price |-> 1800, trend |-> "down"],
       [key |-> <<"t","o","m","a","t","o">>,             price |-> 2200, trend |-> "up"],
       [key |-> <<"p","o","t","a","t","o">>,             price |-> 1500, trend |-> "stable"],
       [key |-> <<"s","u","g","a","r","c","a","n","e">>, price |-> 350,  trend |-> "up"],
       [key |-> <<"c","o","t","t","o","n">>,             price |-> 5800, trend |-> "down"],
       [key |-> <<"s","o","y","b","e","a","n">>,         price |-> 4200, trend |-> "stable"] >>

Refs == 1..NumCrops     \* the CropRate objects, by identity

\* the draws of random.uniform(-200, 200) of CropRate.__post_init__ that are
\* tried, in rupees
SeedDraws == << <<150, -30, 75, -180, 10, 199, -1>> >>

\* CropRate.__post_init__ with historical_data None
CropRate_post_init(entry, draws) ==
    [current_price |-> entry.price * Scale,
     trend |-> entry.trend,
     last_updated |-> 0,
     historical_data |-> [i \in 1..SeedLen |-> (entry.price + draws[i]) * Scale]]

\* the draws of random.uniform(-0.05, 0.05) that are tried, as fractions
Variations == { <<0, 1>>, <<1, 1000000>>, <<-1, 1000000>>, <<1, 20>>, <<-1, 20>> }

\* crop.current_price * (1 + variation)
NewPrice(price, variation) == price + ((price * variation[1]) \div variation[2])

\* round(x, 2); a value halfway between two cents goes the way tie says
\* (its binary float lies on one side or the other)
Round2(x, tie) ==
    LET r == x % Cent IN
    IF 2 * r < Cent THEN x - r
    ELSE IF 2 * r > Cent THEN x - r + Cent
    ELSE IF tie = "down" THEN x - r ELSE x - r + Cent

\* seq[start:] of Python, start of either sign
SliceFrom(seq, start) ==
    LET from == IF start < 0
                THEN (IF Len(seq) + start < 0 THEN 0 ELSE Len(seq) + start)
                ELSE (IF start > Len(seq) THEN Len(seq) ELSE start)
    IN  SubSeq(seq, from + 1, Len(seq))

\* the body of the loop of update_mock_data for one record
UpdateCrop(crop, variation, tie, now) ==
    LET new_price == NewPrice(crop.current_price, variation)
        trend == IF new_price > crop.current_price THEN "up"
                 ELSE IF new_price < crop.current_price THEN "down"
                 ELSE "stable"
        appended == IF crop.historical_data # <<>>
                    THEN Append(crop.historical_data, new_price)
                    ELSE crop.historical_data
    IN  [current_price |-> Round2(new_price, tie),
         trend |-> trend,
         last_updated |-> now,
         historical_data |-> IF Len(appended) > HistoryCap
                             THEN SliceFrom(appended, -HistoryCap)
                             ELSE appended]

NonZero(vs) == Cardinality({r \in Refs : vs[r][1] # 0})

MarketOp(op) == Op(op, 0, <<>>, <<>>, "return", <<>>, <<>>, FALSE)

\* update_mock_data: every record is updated in place
UpdateMockData ==
    /\ clock < MaxTicks
    /\ \E vs \in [Refs -> Variations], ties \in [Refs -> {"down", "up"}] :
        /\ moves + NonZero(vs) <= MaxMoves
        /\ moves' = moves + NonZero(vs)
        /\ objs' = [r \in Refs |-> UpdateCrop(objs[r], vs[r], ties[r], clock + 1)]
    /\ clock' = clock + 1
    /\ last' = MarketOp("update_mock_data")
    /\ UNCHANGED <<mock_data, held, service, session_state>>

\* get_current_rates: self.mock_data.copy(), a new dict of the same objects;
\* seen records what the objects held when the dict was returned
GetCurrentRates ==
    /\ held' = [kind |-> "rates", rates |-> mock_data,
                seen |-> [k \in DOMAIN mock_data |-> objs[mock_data[k]]]]
    /\ last' = MarketOp("get_current_rates")
    /\ UNCHANGED <<objs, mock_data, moves, clock, service, session_state>>

\* get_rate_by_crop: the object under the normalised name, or None
get_rate_by_crop(crop_name) ==
    LET crop_key == RemoveSpaces(Lower(crop_name)) IN
    IF crop_key \in DOMAIN mock_data
    THEN [found |-> TRUE, ref |-> mock_data[crop_key]]
    ELSE [found |-> FALSE, ref |-> 0]

\* get_historical_trends
get_historical_trends(crop_name, days) ==
    LET crop == get_rate_by_crop(crop_name) IN
    IF crop.found /\ objs[crop.ref].historical_data # <<>>
    THEN LET historical_data == objs[crop.ref].historical_data
         IN  IF Len(historical_data) >= days
             THEN SliceFrom(historical_data, -days)
             ELSE historical_data
    ELSE <<>>

\* crop_name arguments tried
CropNames ==
    { <<"W","h"," ","e","a","t">>, <<"b","a","r","l","e","y">> }

\* days arguments tried
DaysInputs == {-2, 0, 3, 7, 31}

GetHistoricalTrends(crop_name, days) ==
    /\ last' = [op |-> "get_historical_trends", crop_name |-> crop_name, days |-> days,
                value |-> get_historical_trends(crop_name, days)]
    /\ UNCHANGED <<objs, mock_data, held, moves, clock, service, session_state>>

----------------------------------------------------------------------------
(* Specifications *)

Init ==
    /\ service = NoService
    /\ session_state = [s \in Sessions |-> EmptyDict]
    /\ clock = 0
    /\ last = Op("init", 0, <<>>, <<>>, "return", <<>>, <<>>, FALSE)
    /\ \E seeds \in [Refs -> 1..Len(SeedDraws)] :
        objs = [r \in Refs |-> CropRate_post_init(Catalog[r], SeedDraws[seeds[r]])]
    /\ mock_data = [k \in {Catalog[r].key : r \in Refs} |->
                        CHOOSE r \in Refs : Catalog[r].key = k]
    /\ held = [kind |-> "none"]
    /\ moves = 0

\* the translation service as called from the sessions' script runs
NextService ==
    \/ \E s \in Sessions : Main(s)
    \/ \E s \in Sessions, text \in Texts, lang \in LangInputs : Translate(s, text, lang)
    \/ \E s \in Sessions, texts \in Batches, lang \in LangInputs : BatchTranslate(s, texts, lang)
    \/ \E s \in Sessions : ClearCache(s)

Spec == Init /\ [][NextService]_vars

\* the session whose negotiation is followed
Negotiator == CHOOSE s \in Sessions : \A t \in Sessions : s <= t

\* the application: one session's sidebar changes and chat submissions, next
\* to the page loads of every session (any of which may build the services)
NextApp ==
    \/ \E s \in Sessions : Main(s)
    \/ \E lang \in {marathi, english} : ChangeLanguage(Negotiator, lang)
    \/ \E role \in Roles : ChangeRole(Negotiator, role)
    \/ \E user_input \in ChatInputs, choice \in 1..NumReplies :
            SubmitChat(Negotiator, user_input, choice)

SpecApp == Init /\ [][NextApp]_vars

\* sessions interleaving their chat submissions and translate calls, each in
\* the default language
NextSessions ==
    \/ \E s \in Sessions : Main(s)
    \/ \E s \in Sessions, user_input \in ChatInputs, choice \in 1..NumReplies :
            SubmitChat(s, user_input, choice)
    \/ \E s \in Sessions, text \in ChatInputs : Translate(s, text, hindi)

SpecSessions == Init /\ [][NextSessions]_vars

\* texts whose cache keys run close to one another: one is another followed
\* by "_" and a language name, one ends with the separator
KeyTexts ==
    { <<"o","k">>,
      <<"o","k","_","h","i","n","d","i">>,
      <<"DEV_MA","_">> }

KeyLangs == { hindi, english, <<"H","i","n","d","i">> }

\* translate and clear_cache called in one session, next to the page loads of
\* every session
NextKeys ==
    \/ \E s \in Sessions : Main(s)
    \/ \E text \in KeyTexts, lang \in KeyLangs : Translate(Negotiator, text, lang)
    \/ ClearCache(Negotiator)

SpecKeys == Init /\ [][NextKeys]_vars

\* the market rate service
NextMarket ==
    \/ UpdateMockData
    \/ GetCurrentRates
    \/ \E crop_name \in CropNames, days \in DaysInputs : GetHistoricalTrends(crop_name, days)

SpecMarket == Init /\ [][NextMarket]_vars

TypeOK ==
    /\ service.built \in BOOLEAN
    /\ clock \in Nat
    /\ moves \in 0..MaxMoves

----------------------------------------------------------------------------
(* Properties of TranslationService, under Spec *)

\* the translation cache of session s, empty when the session has none
CacheOf(s) ==
    IF Has(session_state[s], "translation_cache")
    THEN session_state[s]["translation_cache"]
    ELSE EmptyDict

\* the cache key of the call recorded in op
KeyOf(op) == CacheKey(op.text, Lower(op.lang))

FailedCall(op) == \E i \in DOMAIN op.calls : ~op.calls[i].ok

\* C1: a call translate(T, L) with L supported, made while the calling
\* session's cache holds an entry for (T, L), returns exactly the cached value
\* and makes no gateway call.
C1_CacheHitNoGateway ==
    [][ (/\ last'.op = "translate"
         /\ Lower(last'.lang) \in supported_languages
         /\ KeyOf(last') \in DOMAIN CacheOf(last'.sess))
        => (/\ last'.outcome = "return"
            /\ last'.value = CacheOf(last'.sess)[KeyOf(last')]
            /\ last'.calls = <<>>) ]_vars

\* a translate call answered from the cache: a translation comes back with no
\* gateway call
C1_Witness ==
    /\ last.op = "translate"
    /\ last.outcome = "return"
    /\ last.calls = <<>>
    /\ KeyOf(last) \in DOMAIN CacheOf(last.sess)
    /\ last.value = CacheOf(last.sess)[KeyOf(last)]
    /\ last.value # last.text

SameCall(a, b) ==
    /\ a.op = "translate"
    /\ b.op = "translate"
    /\ a.sess = b.sess
    /\ a.text = b.text
    /\ a.lang = b.lang

\* C2: two consecutive calls translate(T, L) in one session return the same
\* result, and the gateway is invoked at most once over the two calls,
\* whatever the gateway does.
C2_Idempotent ==
    [][ SameCall(last, last')
        => (/\ last'.outcome = last.outcome
            /\ last'.value = last.value
            /\ Len(last.calls) + Len(last'.calls) <= 1) ]_vars

\* C2 as amended: the same, for a first call whose gateway call, if it made
\* one, did not fail.
C2_IdempotentAfterSuccess ==
    [][ (SameCall(last, last') /\ ~FailedCall(last))
        => (/\ last'.outcome = last.outcome
            /\ last'.value = last.value
            /\ Len(last.calls) + Len(last'.calls) <= 1) ]_vars

\* the second of two consecutive identical calls, served the translation the
\* first one stored
C2_Witness ==
    /\ last.op = "translate"
    /\ last.again
    /\ last.outcome = "return"
    /\ last.calls = <<>>
    /\ last.value # last.text

\* C3: when the gateway call of translate(T, L) fails, translate returns T,
\* the cache has no entry for (T, L) afterwards, and the gateway was called
\* once only in that call.
C3_FailureFallsBack ==
    (last.op = "translate" /\ FailedCall(last))
    => (/\ last.outcome = "return"
        /\ last.value = last.text
        /\ Len(last.calls) = 1
        /\ KeyOf(last) \notin DOMAIN CacheOf(last.sess))

\* a translate call whose gateway call failed
C3_Witness ==
    /\ last.op = "translate"
    /\ Len(last.calls) = 1
    /\ ~last.calls[1].ok
    /\ last.value = last.text

\* C4: with no gateway configured, every call translate(T, L) returns T.
C4_NoGatewayReturnsText ==
    (last.op = "translate" /\ service.built /\ ~service.gemini_client)
    => (last.outcome = "return" /\ last.value = last.text)

\* C5: a step that is not clear_cache keeps every cache entry: the key stays
\* and its value is the same.
C5_EntriesStable ==
    [][ last'.op # "clear_cache"
        => \A s \in Sessions : \A key \in DOMAIN CacheOf(s) :
              /\ Has(session_state'[s], "translation_cache")
              /\ key \in DOMAIN session_state'[s]["translation_cache"]
              /\ session_state'[s]["translation_cache"][key] = CacheOf(s)[key] ]_vars

\* a batch_translate that called the gateway and stored a translation next to
\* an entry the cache already held
C5_Witness ==
    /\ last.op = "batch_translate"
    /\ \E i \in DOMAIN last.calls : last.calls[i].ok
    /\ \E key \in DOMAIN CacheOf(last.sess) :
          \A i \in DOMAIN last.calls :
              key # CacheKey(last.calls[i].text, last.calls[i].target)

----------------------------------------------------------------------------
(* Properties of the sessions, under SpecSessions *)

SessionOps == {"main", "language", "role", "submit", "translate"}

\* C6: a script run or translate call of one session leaves every other
\* session's st.session_state (its cache entries and its messages) as it was,
\* and a translation it returns without a gateway call is the entry its own
\* session's cache held.
C6_SessionIsolation ==
    [][ last'.op \in SessionOps
        => /\ \A t \in Sessions \ {last'.sess} : session_state'[t] = session_state[t]
           /\ (/\ last'.op \in {"submit", "translate"}
               /\ last'.outcome = "return"
               /\ last'.calls = <<>>
               /\ last'.value # last'.text)
              => (/\ KeyOf(last') \in DOMAIN CacheOf(last'.sess)
                  /\ last'.value = CacheOf(last'.sess)[KeyOf(last')]) ]_vars

\* two sessions have chatted, one of them with a translated reply in its cache
C6_Witness ==
    \E s, t \in Sessions :
        /\ s # t
        /\ Has(session_state[s], "negotiation_history")
        /\ Has(session_state[t], "negotiation_history")
        /\ Len(session_state[s]["negotiation_history"]) > 0
        /\ Len(session_state[t]["negotiation_history"]) > 0
        /\ CacheOf(s) # EmptyDict
        /\ last.op = "submit"
        /\ last.sess = t

----------------------------------------------------------------------------
(* Properties of MarketRateService, under SpecMarket *)

\* the last n entries of seq, in order
LastEntries(seq, n) == SubSeq(seq, Len(seq) - n + 1, Len(seq))

Min(a, b) == IF a < b THEN a ELSE b

\* C7: what a mapping returned by get_current_rates shows for each commodity
\* (price, trend, timestamp, history) stays what it was when it was returned.
C7_SnapshotUnchanged ==
    held.kind = "rates"
    => \A k \in DOMAIN held.rates : objs[held.rates[k]] = held.seen[k]

\* C8: a tick leaves each record's stored price within 5% of the price before,
\* with trend up iff the stored price rose, down iff it fell, stable otherwise.
C8_TickPriceAndTrend ==
    [][ last'.op = "update_mock_data"
        => \A r \in Refs :
              LET P == objs[r].current_price
                  Q == objs'[r].current_price
                  trend == objs'[r].trend
              IN  /\ 95 * P <= 100 * Q
                  /\ 100 * Q <= 105 * P
                  /\ (trend = "up") <=> (Q > P)
                  /\ (trend = "down") <=> (Q < P)
                  /\ (trend = "stable") <=> (Q = P) ]_vars

\* C9: a tick appends each record's new current price at the end of its
\* history, keeps the most recent entries in order, at most 30 of them.
C9_TickAppendsCurrentPrice ==
    [][ last'.op = "update_mock_data"
        => \A r \in Refs :
              LET H == objs[r].historical_data
                  G == objs'[r].historical_data
                  all == Append(H, objs'[r].current_price)
              IN  /\ Len(G) <= HistoryCap
                  /\ G = LastEntries(all, Min(HistoryCap, Len(all))) ]_vars

\* C10: get_historical_trends(id, days) with days >= 0 returns the last
\* min(days, len(H)) entries of the history H of a known commodity, and the
\* empty sequence for an unknown id or an empty history.
C10_LastDaysEntries ==
    (last.op = "get_historical_trends" /\ last.days >= 0)
    => LET crop == get_rate_by_crop(last.crop_name) IN
       IF crop.found
       THEN LET H == objs[crop.ref].historical_data
            IN  last.value = LastEntries(H, Min(last.days, Len(H)))
       ELSE last.value = <<>>

----------------------------------------------------------------------------
(* Properties of the negotiation chat, under SpecApp *)

\* the negotiation history of session s, empty before its first script run
HistoryOf(s) ==
    IF Has(session_state[s], "negotiation_history")
    THEN session_state[s]["negotiation_history"]
    ELSE <<>>

\* C11: every step keeps each session's history as a prefix of the history
\* after it; what a step adds are messages created in that step, by a chat
\* submission of that session, placed at the end; the messages stand in the
\* order of their creation, none of them twice.
C11_AppendOnly ==
    [][ \A s \in Sessions :
          LET before == HistoryOf(s)
              after == HistoryOf(s)'
          IN  /\ Len(after) >= Len(before)
              /\ SubSeq(after, 1, Len(before)) = before
              /\ \A i \in 1..Len(before) : before[i].timestamp < clock
              /\ \A i \in (Len(before) + 1)..Len(after) : after[i].timestamp >= clock
              /\ \A i \in 1..(Len(after) - 1) :
                    after[i].timestamp < after[i + 1].timestamp
              /\ (Len(after) > Len(before))
                    => (last'.op = "submit" /\ last'.sess = s) ]_vars

\* a second chat submission of a session that changed its role after the
\* first one: four messages, of both user roles
C11_Witness ==
    /\ last.op = "submit"
    /\ Len(HistoryOf(last.sess)) >= 4
    /\ \E i, j \in 1..Len(HistoryOf(last.sess)) :
          /\ HistoryOf(last.sess)[i].role = "buyer"
          /\ HistoryOf(last.sess)[j].role = "seller"

\* the roles of the messages of every session's history
HistoryRoles ==
    UNION { {HistoryOf(s)[i].role : i \in 1..Len(HistoryOf(s))} : s \in Sessions }

\* C12: every message of every history has a speaker role among buyer, seller
\* and assistant.
C12_RolesBuyerSellerAssistant ==
    HistoryRoles \subseteq {"buyer", "seller", "assistant"}

\* C12 as amended: every message of every history has a speaker role among
\* buyer, seller and ai_assistant, the role the chat handler gives its reply.
C12_RolesBuyerSellerAiAssistant ==
    HistoryRoles \subseteq {"buyer", "seller", "ai_assistant"}

\* histories holding a message of each of the three roles
C12_Witness ==
    HistoryRoles = {"buyer", "seller", "ai_assistant"}

\* the translations of text into lang that the gateway may return
Translations(text, lang) ==
    { gw.value : gw \in {g \in GatewayOutcomes(text, detect_language(text), lang) : g.ok} }

\* C13: a chat submission, whatever the state of the translation service,
\* adds to the session's history the user's message followed by one reply of
\* the assistant, which is a translation of the drawn reply or the drawn reply
\* itself; it is the drawn reply itself when the service is absent, the
\* session has no cache, the gateway failed or the language is english.
C13_SubmissionCompletes ==
    [][ \A s \in Sessions : (last'.op = "submit" /\ last'.sess = s)
        => LET before == HistoryOf(s)
               after == HistoryOf(s)'
               n == Len(before)
           IN  /\ Len(after) = n + 2
               /\ SubSeq(after, 1, n) = before
               /\ after[n + 1].role = session_state[s]["user_role"]
               /\ after[n + 1].content \in ChatInputs
               /\ after[n + 2].role = "ai_assistant"
               /\ \/ after[n + 2].content = last'.text
                  \/ after[n + 2].content \in Translations(last'.text, last'.lang)
               /\ (last'.outcome # "return" \/ FailedCall(last'))
                     => after[n + 2].content = last'.text ]_vars

\* a chat submission in a session that has no translation cache, the service
\* being built: the reply is appended untranslated
C13_Witness ==
    /\ last.op = "submit"
    /\ last.outcome = "raise"
    /\ service.built
    /\ ~Has(session_state[last.sess], "translation_cache")
    /\ HistoryOf(last.sess) # <<>>
    /\ HistoryOf(last.sess)[Len(HistoryOf(last.sess))].content = last.text

----------------------------------------------------------------------------
(* Further properties of TranslationService.translate, under Spec *)

\* text is empty or made of whitespace only
Blank(text) == \A i \in 1..Len(text) : text[i] \in Whitespace

\* C14: a call translate(T, L) with T empty or whitespace-only, or with L not
\* one of marathi, hindi, english once lowercased, returns T, makes no gateway
\* call and leaves every session's state, the caches included, as it was.
C14_PassThrough ==
    [][ (/\ last'.op = "translate"
         /\ \/ Blank(last'.text)
            \/ Lower(last'.lang) \notin {marathi, hindi, english})
        => (/\ last'.outcome = "return"
            /\ last'.value = last'.text
            /\ last'.calls = <<>>
            /\ session_state' = session_state) ]_vars

\* a whitespace-only text passed through for a supported language, with the
\* gateway configured and a translation already in the caller's cache
C14_Witness ==
    /\ last.op = "translate"
    /\ last.text # <<>>
    /\ Blank(last.text)
    /\ Lower(last.lang) \in supported_languages
    /\ last.value = last.text
    /\ service.gemini_client
    /\ CacheOf(last.sess) # EmptyDict

----------------------------------------------------------------------------
(* Properties of the cache keys, under SpecKeys *)

\* the (text, language) pairs whose cache key is key
Owners(key) ==
    { p \in KeyTexts \X supported_languages : p[1] \o <<"_">> \o p[2] = key }

\* C15: a call translate(T, L) changes nothing but the caller's cache; it
\* changes the cache only when it made one gateway call that succeeded, and
\* then adds the one entry keyed T_l, l being L lowercased, with the
\* gateway's result as its value; on every other path the cache is as it was.
\* Every entry of the cache is the entry of one (text, language) pair only
\* and holds a translation of that text into that language.
C15_TranslateFrame ==
    [][ \A s \in Sessions : (last'.op = "translate" /\ last'.sess = s)
        => LET key == last'.text \o <<"_">> \o Lower(last'.lang)
               succeeded == \E i \in DOMAIN last'.calls : last'.calls[i].ok
           IN  /\ \A t \in Sessions \ {s} : session_state'[t] = session_state[t]
               /\ DOMAIN session_state'[s] = DOMAIN session_state[s]
               /\ \A k \in DOMAIN session_state[s] \ {"translation_cache"} :
                     session_state'[s][k] = session_state[s][k]
               /\ IF succeeded
                  THEN /\ Len(last'.calls) = 1
                       /\ key \notin DOMAIN CacheOf(s)
                       /\ last'.value \in Translations(last'.text, Lower(last'.lang))
                       /\ CacheOf(s)' = Put(CacheOf(s), key, last'.value)
                  ELSE CacheOf(s)' = CacheOf(s)
               /\ \A k \in DOMAIN CacheOf(s)' :
                     /\ Cardinality(Owners(k)) = 1
                     /\ \A p \in Owners(k) : CacheOf(s)'[k] \in Translations(p[1], p[2]) ]_vars

\* a translation stored for a text that is another cached text followed by
\* "_" and a language name
C15_Witness ==
    /\ last.op = "translate"
    /\ \E i \in DOMAIN last.calls : last.calls[i].ok
    /\ \E k \in DOMAIN CacheOf(last.sess) :
          /\ k # KeyOf(last)
          /\ Len(k) < Len(KeyOf(last))
          /\ SubSeq(KeyOf(last), 1, Len(k)) = k

====
